---- MODULE Spec2Model ----
(***************************************************************************)
(* Model of trustpilot.py: the Maze wrapper (adjacency decoding and state   *)
(* refresh), the path search bfs, the escape move backup, the planner       *)
(* get_move and the game loop play.                                         *)
(*                                                                          *)
(* Coordinates are <<row, column>>.  The adjacency mapping is a function    *)
(* whose DOMAIN is the set of keys of the defaultdict(set).  Iteration over *)
(* a Python set has no order the program fixes, so every result that some   *)
(* iteration order produces is a possible result.                           *)
(***************************************************************************)
EXTENDS Integers, Sequences, FiniteSets, TLC

VARIABLES
    width,      \* Maze.width
    height,     \* Maze.height
    grid,       \* data["data"]: the wall descriptors, row-major
    maze,       \* Maze.maze: the adjacency mapping
    pony,       \* Maze.pony
    domokun,    \* Maze.domokun
    goal,       \* Maze.goal
    state,      \* Maze.state
    path,       \* get_move: the value bfs returned
    target,     \* get_move: the local `move` (a cell)
    move,       \* play: the local `move` (a direction)
    err,        \* the exception that ended play, if any
    pc          \* position of play

vars == <<width, height, grid, maze, pony, domokun, goal, state, path, target, move, err, pc>>

\* Largest number of cells of a maze whose boundary walls are all present.
MaxCells == 6
\* Largest number of cells of a maze that may omit boundary walls.
MaxMalformedCells == 3
\* Largest number of cells of a maze decoded from arbitrary descriptors.
MaxDecodeCells == 2
\* Largest difference between the descriptor count and width*height.
MaxLenDiff == 1

Directions == {"north", "south", "east", "west"}
None == <<>>
EmptyMaze == [k \in {} |-> {}]

Abs(x) == IF x < 0 THEN -x ELSE x

\* Maze._coord_from_index
coord_from_index(w, index) == <<index \div w, index % w>>

\* Maze.__getitem__ on a defaultdict(set): the value read
Get(m, item) == IF item \in DOMAIN m THEN m[item] ELSE {}

\* Maze.__getitem__ on a defaultdict(set): the mapping after the read
\* (a missing key is inserted with an empty set)
Touch(m, item) == [k \in DOMAIN m \cup {item} |-> Get(m, k)]

\* self.maze[a].add(b)
AddTo(m, a, b) == [k \in DOMAIN m \cup {a} |-> IF k = a THEN Get(m, a) \cup {b} ELSE m[k]]

\* DecodeCell with the reverse west edge (line 45) forgotten
DecodeCellOneWay(m, w, idx, walls) ==
    LET row == coord_from_index(w, idx)[1]
        column == coord_from_index(w, idx)[2]
        m1 == IF "west" \notin walls
              THEN AddTo(m, <<row, column>>, <<row, column - 1>>)
              ELSE m
    IN  IF "north" \notin walls
        THEN AddTo(AddTo(m1, <<row, column>>, <<row - 1, column>>),
                   <<row - 1, column>>, <<row, column>>)
        ELSE m1

\* one iteration of the decoding loop of Maze.__init__
DecodeCell(m, w, idx, walls) ==
    LET row == coord_from_index(w, idx)[1]
        column == coord_from_index(w, idx)[2]
        m1 == IF "west" \notin walls
              THEN AddTo(AddTo(m, <<row, column>>, <<row, column - 1>>),
                         <<row, column - 1>>, <<row, column>>)
              ELSE m
    IN  IF "north" \notin walls
        THEN AddTo(AddTo(m1, <<row, column>>, <<row - 1, column>>),
                   <<row - 1, column>>, <<row, column>>)
        ELSE m1

RECURSIVE DecodeFrom(_, _, _, _)
DecodeFrom(m, w, g, idx) ==
    IF idx >= Len(g) THEN m
    ELSE DecodeFrom(DecodeCell(m, w, idx, g[idx + 1]), w, g, idx + 1)

\* the adjacency list built by Maze.__init__
Decode(w, g) == DecodeFrom(EmptyMaze, w, g, 0)

RECURSIVE Perms(_)
Perms(S) ==
    IF S = {} THEN {<<>>}
    ELSE UNION {{<<x>> \o p : p \in Perms(S \ {x})} : x \in S}

InPath(c, p) == \E i \in 1..Len(p) : p[i] = c

\* Pushed with the loop left after the first append
PushedFirst(order, p) ==
    [i \in 1..(IF order = <<>> THEN 0 ELSE 1) |-> [pos |-> order[i], path |-> Append(p, order[i])]]

\* the entries one pass of the for loop of bfs appends, in iteration order
Pushed(order, p) == [i \in 1..Len(order) |-> [pos |-> order[i], path |-> Append(p, order[i])]]

\* the while loop of bfs from a given queue: every [path, maze] it can end with
RECURSIVE BfsRun(_, _, _, _)
BfsRun(m, queue, g, d) ==
    IF queue = <<>> THEN {[path |-> <<>>, maze |-> m]}
    ELSE LET top == queue[Len(queue)]
             rest == SubSeq(queue, 1, Len(queue) - 1)
             m2 == Touch(m, top.pos)
             nbrs == m2[top.pos]
             fresh == {n \in nbrs : ~InPath(n, top.path) /\ n # d}
         IN  IF g \in nbrs
             THEN {[path |-> Append(top.path, g), maze |-> m2]}
             ELSE UNION {BfsRun(m2, rest \o Pushed(order, top.path), g, d) : order \in Perms(fresh)}

bfs(m, p, g, d) == BfsRun(m, <<[pos |-> p, path |-> <<p>>]>>, g, d)

\* the sort key of backup
BackupKey(c, d) == Abs(c[1] - d[2]) + Abs(c[2] - d[2])

\* backup: the cells sorted(moves, key)[-1] can be (moves non-empty)
backup(m, p, d) ==
    {c \in Get(m, p) : \A o \in Get(m, p) : BackupKey(o, d) <= BackupKey(c, d)}

Deltas == {<<0, -1>>, <<1, 0>>, <<0, 1>>, <<-1, 0>>}

\* move_map with east and west exchanged
move_map_swapped(delta) ==
    CASE delta = <<0, -1>> -> "east"
      [] delta = <<1, 0>> -> "south"
      [] delta = <<0, 1>> -> "west"
      [] delta = <<-1, 0>> -> "north"

\* move_map of get_move
move_map(delta) ==
    CASE delta = <<0, -1>> -> "west"
      [] delta = <<1, 0>> -> "south"
      [] delta = <<0, 1>> -> "east"
      [] delta = <<-1, 0>> -> "north"

\* the unit delta of a direction, as the remote side applies it
DeltaOf(dir) ==
    CASE dir = "west" -> <<0, -1>>
      [] dir = "south" -> <<1, 0>>
      [] dir = "east" -> <<0, 1>>
      [] dir = "north" -> <<-1, 0>>

Cells(w, h) == {coord_from_index(w, i) : i \in 0..(w * h - 1)}

\* descriptors whose boundary cells all declare their boundary wall
WellFormed(w, g) ==
    \A i \in 0..(Len(g) - 1) :
        /\ coord_from_index(w, i)[2] = 0 => "west" \in g[i + 1]
        /\ coord_from_index(w, i)[1] = 0 => "north" \in g[i + 1]

\* the loop test ignoring the status
LoopTestAlways(s) == "plan"

\* while maze.state == "active"
LoopTest(s) == IF s = "active" THEN "plan" ELSE "done"

TypeStart ==
    /\ maze = EmptyMaze
    /\ pony = None /\ domokun = None /\ goal = None
    /\ state = "none"
    /\ path = None /\ target = None /\ move = "none" /\ err = "none"
    /\ pc = "init"

\* play is called; the remote side holds a maze whose descriptors list west and
\* north walls (the decoder reads no other)
Init ==
    /\ width \in 1..MaxCells
    /\ height \in 1..MaxCells
    /\ width * height <= MaxCells
    /\ grid \in [1..(width * height) -> SUBSET {"west", "north"}]
    /\ (WellFormed(width, grid) \/ width * height <= MaxMalformedCells)
    /\ TypeStart

\* Maze.__init__ is called with width*height descriptors, each any subset of
\* the four directions
InitDecode ==
    /\ width \in 1..MaxDecodeCells
    /\ height \in 1..MaxDecodeCells
    /\ width * height <= MaxDecodeCells
    /\ grid \in [1..(width * height) -> SUBSET Directions]
    /\ TypeStart

\* Maze.__init__
MazeInit ==
    /\ pc = "init"
    /\ \E pi \in 0..(width * height - 1), di \in 0..(width * height - 1),
          gi \in 0..(width * height - 1) :
           /\ pony' = coord_from_index(width, pi)
           /\ domokun' = coord_from_index(width, di)
           /\ goal' = coord_from_index(width, gi)
    /\ state' = "active"
    /\ maze' = Decode(width, grid)
    /\ pc' = LoopTest(state')
    /\ UNCHANGED <<width, height, grid, path, target, move, err>>

\* get_move, after bfs returned r and the target cell t was chosen
Lookup(r, t) ==
    LET delta == <<t[1] - pony[1], t[2] - pony[2]>>
    IN  /\ path' = r.path
        /\ target' = t
        /\ maze' = r.maze
        /\ IF delta \in Deltas
           THEN move' = move_map(delta) /\ err' = err /\ pc' = "post"
           ELSE move' = move /\ err' = "KeyError" /\ pc' = "crashed"

\* get_move called by play
get_move ==
    /\ pc = "plan"
    /\ \E r \in bfs(maze, pony, goal, domokun) :
           IF r.path # <<>>
           THEN Lookup(r, r.path[2])
           ELSE IF Get(r.maze, pony) = {}
                THEN /\ path' = r.path
                     /\ maze' = r.maze
                     /\ err' = "IndexError"
                     /\ pc' = "crashed"
                     /\ UNCHANGED <<target, move>>
                ELSE \E t \in backup(r.maze, pony, domokun) : Lookup(r, t)
    /\ UNCHANGED <<width, height, grid, pony, domokun, goal, state>>

\* Maze.move: the move command is posted (the request is taken to return)
move_post ==
    /\ pc = "post"
    /\ pc' = "refresh"
    /\ UNCHANGED <<width, height, grid, maze, pony, domokun, goal, state, path, target, move, err>>

\* the cell the remote side reports for the pony after a move command
Moved(p, dir) ==
    LET q == <<p[1] + DeltaOf(dir)[1], p[2] + DeltaOf(dir)[2]>>
    IN  IF q \in Cells(width, height) THEN {p, q} ELSE {p}

\* Maze._update_state, called by Maze.move; then the loop test of play.
\* The snapshot comes from the remote side: the pony is where it was or one
\* step further in the direction posted, Domokun is on any cell, the goal is
\* where it was, and the status is any of the three.
update_state ==
    /\ pc = "refresh"
    /\ \E pi \in 0..(width * height - 1), di \in 0..(width * height - 1),
          gi \in 0..(width * height - 1) :
           /\ coord_from_index(width, pi) \in Moved(pony, move)
           /\ coord_from_index(width, gi) = goal
           /\ pony' = coord_from_index(width, pi)
           /\ domokun' = coord_from_index(width, di)
           /\ goal' = coord_from_index(width, gi)
    /\ state' \in {"active", "won", "over"}
    /\ pc' = LoopTest(state')
    /\ path' = None /\ target' = None /\ move' = "none"
    /\ UNCHANGED <<width, height, grid, maze, err>>

Next == MazeInit \/ get_move \/ move_post \/ update_state

Spec == Init /\ [][Next]_vars

NextDecode == MazeInit

SpecDecode == InitDecode /\ [][NextDecode]_vars

\* Maze.__init__ is called with descriptors that list west and north walls, of
\* any length close to width*height
InitLength ==
    /\ width \in 1..MaxDecodeCells
    /\ height \in 1..MaxDecodeCells
    /\ width * height <= MaxDecodeCells
    /\ \E n \in 0..(width * height + MaxLenDiff) :
           /\ n >= width * height - MaxLenDiff
           /\ grid \in [1..n -> SUBSET {"west", "north"}]
    /\ TypeStart

NextLength == MazeInit

SpecLength == InitLength /\ [][NextLength]_vars

(***************************************************************************)
(* Reference definitions the claims are stated with.                        *)
(***************************************************************************)

Walls(c) == grid[c[1] * width + c[2] + 1]

HasEdge(a, b) == a \in Get(maze, b) /\ b \in Get(maze, a)

Plus(c, delta) == <<c[1] + delta[1], c[2] + delta[2]>>

\* breadth-first layers over the graph without the cell `removed`
RECURSIVE Layers(_, _, _, _, _)
Layers(frontier, seen, dst, removed, n) ==
    IF dst \in frontier THEN n
    ELSE IF frontier = {} THEN -1
    ELSE LET next == (UNION {Get(maze, v) : v \in frontier}) \ (seen \cup {removed})
         IN  Layers(next, seen \cup next, dst, removed, n + 1)

\* shortest distance from src to dst avoiding `removed`; -1 when there is none
Dist(src, dst, removed) ==
    IF src = removed THEN -1 ELSE Layers({src}, {src}, dst, removed, 0)

IsWalk(p) == \A i \in 1..(Len(p) - 1) : p[i + 1] \in Get(maze, p[i])

Planned == pc \in {"post", "crashed"}

\* the three occupants stand on three different cells
Distinct == pony # goal /\ pony # domokun /\ goal # domokun

\* C1: a non-empty path returned by bfs has as many edges as the shortest
\* distance from the pony to the goal in the graph without Domokun's cell
\* (stated for mazes with all boundary walls and three distinct occupants).
C1_PathIsShortest ==
    Planned /\ Distinct /\ WellFormed(width, grid) /\ path # <<>> =>
        Len(path) - 1 = Dist(pony, goal, domokun)

\* C2: with the pony not on Domokun's cell, no path returned by bfs contains
\* Domokun's position at any index, the last included (stated for mazes with
\* all boundary walls).
C2_DomokunImpassable ==
    Planned /\ WellFormed(width, grid) /\ pony # domokun => ~InPath(domokun, path)

\* C3 (as stated): for width*height descriptors, two grid-adjacent cells are
\* joined by an edge iff neither descriptor lists the wall on the shared side.
C3_EdgeIffNeitherListsWall ==
    pc # "init" /\ Len(grid) = width * height =>
        \A a \in Cells(width, height), b \in Cells(width, height) :
            /\ b = Plus(a, <<0, 1>>) =>
                   (HasEdge(a, b) <=> "east" \notin Walls(a) /\ "west" \notin Walls(b))
            /\ b = Plus(a, <<1, 0>>) =>
                   (HasEdge(a, b) <=> "south" \notin Walls(a) /\ "north" \notin Walls(b))

\* C3 (amended): for width*height descriptors, two grid-adjacent cells are
\* joined by an edge iff the eastern cell of a horizontal pair does not list
\* "west", respectively the southern cell of a vertical pair does not list
\* "north"; "east" and "south" entries are not read.
C3_EdgeIffWestNorthAbsent ==
    pc # "init" /\ Len(grid) = width * height =>
        \A a \in Cells(width, height), b \in Cells(width, height) :
            /\ b = Plus(a, <<0, 1>>) => (HasEdge(a, b) <=> "west" \notin Walls(b))
            /\ b = Plus(a, <<1, 0>>) => (HasEdge(a, b) <=> "north" \notin Walls(b))

C3_Witness ==
    /\ pc # "init"
    /\ width = 2 /\ height = 1 /\ Len(grid) = 2
    /\ "east" \in grid[1] /\ "west" \notin grid[2]
    /\ HasEdge(<<0, 0>>, <<0, 1>>)

\* C4: the decoded graph has no key and no neighbour outside the grid, also
\* when a boundary cell omits its boundary wall.
C4_NoOutOfBounds ==
    pc # "init" =>
        \A k \in DOMAIN maze : k \in Cells(width, height) /\ maze[k] \subseteq Cells(width, height)

\* C5: a descriptor sequence whose length is not width*height makes the
\* construction fail with a decoding error and produces no graph.
C5_LengthMismatchFails ==
    pc # "init" /\ Len(grid) # width * height =>
        pc = "crashed" /\ err = "DecodingError" /\ maze = EmptyMaze

\* C6: when get_move returns, its direction applied as a unit delta to the
\* pony's position lands on the second element of the bfs path, or on the cell
\* backup chose when the path is empty; the direction lookup never fails.
C6_MoveLandsOnTarget ==
    /\ err # "KeyError"
    /\ pc = "post" =>
           /\ path # <<>> => Plus(pony, DeltaOf(move)) = path[2]
           /\ path = <<>> =>
                  /\ Plus(pony, DeltaOf(move)) = target
                  /\ target \in backup(maze, pony, domokun)

C6_Witness == pc = "post" /\ Len(path) > 2 /\ move = "north" /\ path[2] # goal

\* C7: after construction no step of play changes the adjacency mapping.
C7_GraphFrozen == [][pc # "init" => maze' = maze]_vars

\* C8: the loop runs plan, submit, refresh one at a time: a move is submitted
\* only from the planning step and under an active status, the step after a
\* submission is the one refresh, planning follows only a construction or a
\* refresh that left the status active, and a non-active status ends the loop
\* for good.
C8_OneCycleAtATime ==
    [][/\ pc' = "post" => pc = "plan" /\ state = "active"
       /\ pc = "post" => pc' = "refresh"
       /\ pc = "refresh" => pc' \in {"plan", "done"}
       /\ pc' = "refresh" => pc = "post"
       /\ pc' = "plan" => pc \in {"init", "refresh"} /\ state' = "active"
       /\ pc # "init" /\ state' # "active" => pc' = "done"
       /\ pc = "done" => pc' = "done"]_vars

C8_Witness == pc = "done" /\ state = "won"

\* C9: when the pony has a neighbour other than Domokun's cell and Domokun is
\* not on the goal, the target cell of get_move is not Domokun's cell (stated
\* for mazes with all boundary walls and the pony not on Domokun's cell).
C9_NeverOntoDomokun ==
    /\ pc = "post"
    /\ WellFormed(width, grid)
    /\ pony # domokun
    /\ \E n \in Get(maze, pony) : n # domokun
    /\ domokun # goal
    => target # domokun

\* C10: when the goal is another cell than the pony's and some path to it
\* avoids Domokun's cell, bfs returns a walk of the graph from the pony to the
\* goal with at least two elements (so backup is not used).
C10_PathFoundWhenReachable ==
    Planned /\ goal # pony /\ Dist(pony, goal, domokun) > 0 =>
        /\ Len(path) >= 2
        /\ path[1] = pony
        /\ path[Len(path)] = goal
        /\ IsWalk(path)
        /\ target = path[2]

C10_Witness ==
    pc = "post" /\ Dist(pony, goal, domokun) = 2 /\ Len(path) = 5 /\ domokun \in DOMAIN maze

====
